---- MODULE Spec2Model ----
(***************************************************************************)
(* A model of the blogging REST API: the document store (posts, comments,  *)
(* users, categories), the Express routers of posts, comments and users,   *)
(* the Category schema with its pre('save') hook, the middleware chains    *)
(* and the handlers.  Every handler is cut into steps at its awaited store *)
(* operations, so that requests interleave exactly where the event loop    *)
(* lets them.  A request's arrival is merged with its first store read.    *)
(* Roles are reference data that no modelled handler writes.  ObjectIds    *)
(* are naturals handed out in increasing order, and createdAt increases    *)
(* with them.                                                              *)
(***************************************************************************)
EXTENDS Integers, Sequences, FiniteSets, TLC

VARIABLES posts, comments, users, categories, nextPostId, nextCommentId, req, resp, run, fetched

vars == <<posts, comments, users, categories, nextPostId, nextCommentId, req, resp, run, fetched>>
dbVars == <<posts, comments, nextPostId, nextCommentId>>
histVars == <<run, fetched>>

----------------------------------------------------------------------------
(* Bounds of the model *)

MaxPosts == 2
MaxComments == 2
MaxThread == 3
MaxNameLen == 3
MaxViews == 2
MaxVersion == 3
MaxTreeLikes == 1
NumSlots == 2

Slots == 1..NumSlots
PostIds == 1..MaxPosts
CommentIds == 1..MaxComments

----------------------------------------------------------------------------
(* Reference data: users with their roles, categories *)

Users == {"u1", "u2", "admin"}
Anon == "anon"
Principals == Users \cup {Anon}

\* The seeder gives the third user the admin role, the others the user role.
RoleOf(u) == IF u = "admin" THEN "admin" ELSE "user"

NoId == 0

----------------------------------------------------------------------------
(* Middleware *)

\* protect: a request without a valid credential of a stored, active user is
\* answered 401.
Protect(u) == IF u \in Users /\ users[u].isActive THEN 0 ELSE 401

\* authorize('admin'): the principal's role must be admin.
Authorize(u) == IF RoleOf(u) = "admin" THEN 0 ELSE 403

\* isAdmin: the principal's role must be admin.
IsAdmin(u) == IF RoleOf(u) = "admin" THEN 0 ELSE 403

\* isAuthor(Model): loads the resource; 404 when absent; passes when the
\* principal is its author or an admin; else 403.
IsAuthor(coll, id, u) ==
  IF id \notin DOMAIN coll THEN 404
  ELSE IF coll[id].author = u \/ RoleOf(u) = "admin" THEN 0
  ELSE 403

\* One middleware of a chain: 0 lets the request through, else the status it answers.
Middleware(name, coll, id, u, valid) ==
  CASE name = "protect" -> Protect(u)
    [] name = "authorize" -> Authorize(u)
    [] name = "isAdmin" -> IsAdmin(u)
    [] name = "isAuthor" -> IsAuthor(coll, id, u)
    [] name = "validate" -> IF valid THEN 0 ELSE 400
    [] OTHER -> 0

\* Express runs the functions of a route in the order they were registered
\* and stops at the first one that answers.
RECURSIVE RunChain(_, _, _, _, _)
RunChain(chain, coll, id, u, valid) ==
  IF chain = <<>> THEN 0
  ELSE LET s == Middleware(Head(chain), coll, id, u, valid)
       IN IF s # 0 THEN s ELSE RunChain(Tail(chain), coll, id, u, valid)

----------------------------------------------------------------------------
(* Requests in flight and responses *)

Idle == [pc |-> "idle"]
NoResp == [handler |-> "none", status |-> 0, user |-> Anon, id |-> NoId]
NoRun == [id |-> NoId, user |-> Anon, counts |-> <<>>]

IsIdle(r) == req[r].pc = "idle"

\* res.status(..).json(..): the request ends and its slot is free again.
Respond(r, rec) ==
  /\ req' = [req EXCEPT ![r] = Idle]
  /\ resp' = rec

Answer(h, u, id, st) == [handler |-> h, status |-> st, user |-> u, id |-> id]

----------------------------------------------------------------------------
(* The comments collection *)

\* Request texts: one for a new comment, one for an edit, and the empty text
\* that validation rejects.
NewText == <<"o", "k">>
EditText == <<"n", "o">>
EmptyText == <<>>

\* body('text').trim().isLength({ min: 1, max: 1000 }), body('post').notEmpty()
ValidCommentText(text) == Len(text) >= 1 /\ Len(text) <= 1000

\* Comment.create({ text, post, author, parentComment: parentComment || null })
\* with the schema's defaults.
NewComment(text, postId, u, parent) ==
  [text |-> text, post |-> postId, author |-> u, parentComment |-> parent,
   replies |-> <<>>, likes |-> <<>>, isApproved |-> TRUE, isEdited |-> FALSE,
   __v |-> 0]

Insert(coll, id, doc) == coll @@ (id :> doc)

\* A removal that cascades to the documents whose parentComment is the removed one.
RemoveWithReplies(coll, id) ==
  [c \in {x \in DOMAIN coll \ {id} : "parentComment" \notin DOMAIN coll[x] \/ coll[x].parentComment # id}
     |-> coll[c]]

\* doc.remove(): deletes the document with that _id, if it is still stored.
Remove(coll, id) == [k \in DOMAIN coll \ {id} |-> coll[k]]

Without(seq, x) == SelectSeq(seq, LAMBDA y : y # x)
Elements(seq) == {seq[i] : i \in 1..Len(seq)}
Includes(seq, x) == \E i \in 1..Len(seq) : seq[i] = x

\* A push that puts the reply's id first in the parent's replies.
PushReplyFirst(coll, parent, id) ==
  IF parent \in DOMAIN coll
  THEN [coll EXCEPT ![parent].replies = <<id>> \o @]
  ELSE coll

\* Comment.findByIdAndUpdate(parent, { $push: { replies: id } })
PushReply(coll, parent, id) ==
  IF parent \in DOMAIN coll
  THEN [coll EXCEPT ![parent].replies = Append(@, id)]
  ELSE coll

\* A delete that leaves the replies list of the parent as it is.
PullNothing(coll, parent, id) == coll

\* Comment.findByIdAndUpdate(parent, { $pull: { replies: id } })
PullReply(coll, parent, id) ==
  IF parent \in DOMAIN coll
  THEN [coll EXCEPT ![parent].replies = Without(@, id)]
  ELSE coll

\* The middleware registered on each comments route, in order.
CreateCommentRoute == <<"protect", "validate">>
PutCommentRoute == <<"protect", "isAuthor", "validate">>
DeleteCommentRoute == <<"protect", "isAuthor">>
LikeRoute == <<"protect">>
\* The approval route registered without the role check.
ApproveRouteUnguarded == <<"protect">>
ApproveRoute == <<"protect", "authorize">>

\* Creations admitted but not yet inserted: ids are handed out up to MaxComments.
PendingComments ==
  Cardinality({s \in Slots :
     req[s].pc \in {"createComment:parent", "createComment:create"}})

Admit(r, pc, u, id, doc, body) ==
  /\ req' = [req EXCEPT ![r] = [pc |-> pc, user |-> u, id |-> id, doc |-> doc, body |-> body]]
  /\ resp' = NoResp

NoDoc == [none |-> TRUE]
NoBody == [none |-> TRUE]

\* res.status(404) of POST /api/comments, with the post and the parent the
\* request named.
CreateCommentNotFound(u, body) ==
  [handler |-> "createComment", status |-> 404, user |-> u, id |-> NoId,
   post |-> body.post, parentComment |-> body.parentComment]

\* POST /api/comments: validation, then Post.findById(postId).
CreateCommentStart(r, U, cap) ==
  /\ IsIdle(r)
  /\ nextCommentId + PendingComments <= cap
  /\ \E u \in U, text \in {NewText, EmptyText},
        postId \in 1..(MaxPosts + 1), parent \in {NoId} \cup 1..(MaxComments + 1) :
       LET st == RunChain(CreateCommentRoute, comments, NoId, u, ValidCommentText(text))
           body == [text |-> text, post |-> postId, parentComment |-> parent]
       IN IF st # 0
          THEN Respond(r, Answer("createComment", u, NoId, st)) /\ run' = NoRun
          ELSE IF postId \notin DOMAIN posts
          THEN Respond(r, CreateCommentNotFound(u, body)) /\ run' = NoRun
          ELSE /\ Admit(r, IF parent # NoId THEN "createComment:parent"
                                            ELSE "createComment:create",
                        u, NoId, NoDoc, body)
               /\ UNCHANGED run
  /\ UNCHANGED <<dbVars, fetched, users, categories>>

\* if (parentComment) Comment.findById(parentComment): 404 when absent.
CreateCommentParent(r) ==
  /\ req[r].pc = "createComment:parent"
  /\ IF req[r].body.parentComment \notin DOMAIN comments
     THEN Respond(r, CreateCommentNotFound(req[r].user, req[r].body)) /\ run' = NoRun
     ELSE /\ req' = [req EXCEPT ![r].pc = "createComment:create"]
          /\ resp' = NoResp
          /\ UNCHANGED run
  /\ UNCHANGED <<dbVars, fetched, users, categories>>

\* Comment.create(...); a top-level comment is answered 201 at once.
CreateCommentCreate(r) ==
  /\ req[r].pc = "createComment:create"
  /\ LET b == req[r].body
         id == nextCommentId
     IN /\ comments' = Insert(comments, id, NewComment(b.text, b.post, req[r].user, b.parentComment))
        /\ nextCommentId' = id + 1
        /\ IF b.parentComment # NoId
           THEN /\ req' = [req EXCEPT ![r].pc = "createComment:push", ![r].id = id]
                /\ resp' = NoResp
                /\ UNCHANGED run
           ELSE /\ Respond(r, Answer("createComment", req[r].user, id, 201))
                /\ run' = NoRun
  /\ UNCHANGED <<posts, nextPostId, fetched, users, categories>>

\* The reply's id is pushed onto the parent's replies; then 201.
CreateCommentPush(r) ==
  /\ req[r].pc = "createComment:push"
  /\ comments' = PushReply(comments, req[r].body.parentComment, req[r].id)
  /\ Respond(r, Answer("createComment", req[r].user, req[r].id, 201))
  /\ run' = NoRun
  /\ UNCHANGED <<posts, nextPostId, nextCommentId, fetched, users, categories>>

\* populate({ path: 'replies', match: { isApproved: true } }): the stored,
\* approved comments among the ids of the replies list.
PopulatedReplies(c) ==
  {x \in Elements(comments[c].replies) : x \in DOMAIN comments /\ comments[x].isApproved}

\* What a response shows of a comment (with the approval and the parent of
\* the document it was built from).
CommentView(c) ==
  [id |-> c, post |-> comments[c].post, parentComment |-> comments[c].parentComment,
   isApproved |-> comments[c].isApproved, likes |-> Len(comments[c].likes),
   replies |-> Cardinality(PopulatedReplies(c))]

CommentViews(seq) == [i \in 1..Len(seq) |-> CommentView(seq[i])]

\* doc.save() sends the paths whose value differs from the loaded document.
Modified(loaded, local) == {f \in DOMAIN local : local[f] # loaded[f]}

\* doc.save() fails (DocumentNotFoundError) when it has something to send and
\* the document is no longer stored.
SaveFails(coll, id, loaded, local) ==
  Modified(loaded, local) # {} /\ id \notin DOMAIN coll

\* doc.save() of scalar paths: updateOne({ _id }, { $set: modified paths }).
Saved(coll, id, loaded, local) ==
  IF Modified(loaded, local) = {} \/ id \notin DOMAIN coll THEN coll
  ELSE LET stored == coll[id]
           m == Modified(loaded, local)
       IN [coll EXCEPT ![id] = [f \in DOMAIN stored |-> IF f \in m THEN local[f] ELSE stored[f]]]

\* PUT /api/comments/:id: protect, isAuthor(Comment) (which loads the comment
\* into req.resource), validation.
PutCommentStart(r, U) ==
  /\ IsIdle(r)
  /\ \E u \in U, id \in 1..(MaxComments + 1), text \in {EditText, EmptyText},
        parent \in {NoId} \cup 1..MaxComments :
       LET st == RunChain(PutCommentRoute, comments, id, u, ValidCommentText(text))
       IN IF st # 0
          THEN Respond(r, Answer("putComment", u, id, st)) /\ run' = NoRun
          ELSE IF id \notin DOMAIN comments
          THEN Respond(r, Answer("putComment", u, id, 500)) /\ run' = NoRun
          ELSE /\ Admit(r, "putComment:save", u, id, comments[id],
                       [text |-> text, parentComment |-> parent])
               /\ UNCHANGED run
  /\ UNCHANGED <<dbVars, fetched, users, categories>>

\* A handler that copied every field of the body onto the comment.
EditedCommentFromBody(doc, body) ==
  [doc EXCEPT !.text = body.text, !.isEdited = TRUE, !.parentComment = body.parentComment]

\* const { text } = req.body; comment.text = text; comment.isEdited = true
\* (whatever else the body holds is not read).
EditedComment(doc, body) == [doc EXCEPT !.text = body.text, !.isEdited = TRUE]

\* await comment.save(); then 200.
PutCommentSave(r) ==
  /\ req[r].pc = "putComment:save"
  /\ LET doc == req[r].doc
         local == EditedComment(doc, req[r].body)
     IN /\ comments' = Saved(comments, req[r].id, doc, local)
        /\ Respond(r, Answer("putComment", req[r].user, req[r].id,
                             IF SaveFails(comments, req[r].id, doc, local) THEN 500 ELSE 200))
  /\ run' = NoRun
  /\ UNCHANGED <<posts, nextPostId, nextCommentId, fetched, users, categories>>

\* DELETE /api/comments/:id: protect, isAuthor(Comment).
DeleteCommentStart(r, U) ==
  /\ IsIdle(r)
  /\ \E u \in U, id \in 1..(MaxComments + 1) :
       LET st == RunChain(DeleteCommentRoute, comments, id, u, TRUE)
       IN IF st # 0
          THEN Respond(r, Answer("deleteComment", u, id, st)) /\ run' = NoRun
          ELSE IF id \notin DOMAIN comments
          THEN Respond(r, Answer("deleteComment", u, id, 500)) /\ run' = NoRun
          ELSE /\ Admit(r, IF comments[id].parentComment # NoId
                           THEN "deleteComment:pull" ELSE "deleteComment:remove",
                        u, id, comments[id], NoBody)
               /\ UNCHANGED run
  /\ UNCHANGED <<dbVars, fetched, users, categories>>

\* if (comment.parentComment) $pull the comment's id from the parent's replies.
DeleteCommentPull(r) ==
  /\ req[r].pc = "deleteComment:pull"
  /\ comments' = PullReply(comments, req[r].doc.parentComment, req[r].id)
  /\ req' = [req EXCEPT ![r].pc = "deleteComment:remove"]
  /\ resp' = NoResp
  /\ UNCHANGED <<posts, nextPostId, nextCommentId, histVars, users, categories>>

\* await comment.remove(); then 200.
DeleteCommentRemove(r) ==
  /\ req[r].pc = "deleteComment:remove"
  /\ comments' = Remove(comments, req[r].id)
  /\ Respond(r, Answer("deleteComment", req[r].user, req[r].id, 200))
  /\ run' = NoRun
  /\ UNCHANGED <<posts, nextPostId, nextCommentId, fetched, users, categories>>

\* A membership test that compares ObjectIds with the principal's id string
\* by identity finds nothing.
UserLikedByIdentity(likes, u) == FALSE

\* const userLiked = comment.likes.includes(req.user.id)
UserLiked(likes, u) == Includes(likes, u)

\* The likes list as the handler leaves it in memory:
\* likes.filter(id => id.toString() !== req.user.id) or likes.push(req.user.id).
ToggledLikes(likes, u) ==
  IF UserLiked(likes, u) THEN Without(likes, u) ELSE Append(likes, u)

\* The save of the toggle with the rewritten list sent without the version
\* condition.
LikesSavedUnversioned(coll, id, doc, u) ==
  IF id \notin DOMAIN coll THEN coll
  ELSE IF UserLiked(doc.likes, u)
  THEN [coll EXCEPT ![id].likes = ToggledLikes(doc.likes, u), ![id].__v = @ + 1]
  ELSE [coll EXCEPT ![id].likes = Append(@, u), ![id].__v = @ + 1]

\* comment.save() after the toggle.  A push is sent as $push with $inc __v and
\* no version condition; an assigned array is sent as $set with the condition
\* that __v is still the loaded one, and $inc __v.
LikesSaved(coll, id, doc, u) ==
  IF id \notin DOMAIN coll THEN coll
  ELSE IF UserLiked(doc.likes, u)
  THEN IF coll[id].__v = doc.__v
       THEN [coll EXCEPT ![id].likes = ToggledLikes(doc.likes, u), ![id].__v = @ + 1]
       ELSE coll
  ELSE [coll EXCEPT ![id].likes = Append(@, u), ![id].__v = @ + 1]

\* The save is rejected (DocumentNotFoundError, VersionError) and answered 500.
LikesSaveFails(coll, id, doc, u) ==
  \/ id \notin DOMAIN coll
  \/ UserLiked(doc.likes, u) /\ coll[id].__v # doc.__v

\* The last successful toggles of one user on one comment that no other
\* response separates: the likes count before the first and after each,
\* at most the last four of them.
Window(counts) == IF Len(counts) > 4 THEN SubSeq(counts, Len(counts) - 3, Len(counts)) ELSE counts

ToggleRun(old, id, u, before, after) ==
  IF old.id = id /\ old.user = u
  THEN [old EXCEPT !.counts = Window(Append(@, after))]
  ELSE [id |-> id, user |-> u, counts |-> <<before, after>>]

\* POST /api/comments/:id/like: protect, then Comment.findById.
LikeStart(r, U, cap) ==
  /\ IsIdle(r)
  /\ \E u \in U, id \in 1..(MaxComments + 1) :
       LET st == RunChain(LikeRoute, comments, id, u, TRUE)
       IN IF st # 0
          THEN Respond(r, Answer("like", u, id, st)) /\ run' = NoRun
          ELSE IF id \notin DOMAIN comments
          THEN Respond(r, Answer("like", u, id, 404)) /\ run' = NoRun
          ELSE /\ comments[id].__v < cap
               /\ Admit(r, "like:save", u, id, comments[id], NoBody)
               /\ UNCHANGED run
  /\ UNCHANGED <<dbVars, fetched, users, categories>>

\* The toggle on the loaded document, comment.save(), and the answer with the
\* in-memory likes count and !userLiked.
LikeSave(r) ==
  /\ req[r].pc = "like:save"
  /\ LET doc == req[r].doc
         u == req[r].user
         id == req[r].id
     IN /\ comments' = LikesSaved(comments, id, doc, u)
        /\ IF LikesSaveFails(comments, id, doc, u)
           THEN Respond(r, Answer("like", u, id, 500)) /\ run' = NoRun
           ELSE /\ Respond(r, [handler |-> "like", status |-> 200, user |-> u, id |-> id,
                               likes |-> Len(ToggledLikes(doc.likes, u)),
                               isLiked |-> ~UserLiked(doc.likes, u)])
                /\ run' = ToggleRun(run, id, u, Len(comments[id].likes), Len(comments'[id].likes))
  /\ UNCHANGED <<posts, nextPostId, nextCommentId, fetched, users, categories>>

\* PATCH /api/comments/:id/approve: protect, authorize('admin'), Comment.findById.
ApproveStart(r, U) ==
  /\ IsIdle(r)
  /\ \E u \in U, id \in 1..(MaxComments + 1), isApproved \in BOOLEAN :
       LET st == RunChain(ApproveRoute, comments, id, u, TRUE)
       IN IF st # 0
          THEN Respond(r, Answer("approve", u, id, st)) /\ run' = NoRun
          ELSE IF id \notin DOMAIN comments
          THEN Respond(r, Answer("approve", u, id, 404)) /\ run' = NoRun
          ELSE /\ Admit(r, "approve:save", u, id, comments[id], [isApproved |-> isApproved])
               /\ UNCHANGED run
  /\ UNCHANGED <<dbVars, fetched, users, categories>>

\* comment.isApproved = isApproved; await comment.save(); then 200.
ApproveSave(r) ==
  /\ req[r].pc = "approve:save"
  /\ LET doc == req[r].doc
         local == [doc EXCEPT !.isApproved = req[r].body.isApproved]
     IN /\ comments' = Saved(comments, req[r].id, doc, local)
        /\ Respond(r, Answer("approve", req[r].user, req[r].id,
                             IF SaveFails(comments, req[r].id, doc, local) THEN 500 ELSE 200))
  /\ run' = NoRun
  /\ UNCHANGED <<posts, nextPostId, nextCommentId, fetched, users, categories>>

----------------------------------------------------------------------------
(* The posts collection *)

NoText == <<>>

Lower(ch) ==
  CASE ch = "N" -> "n" [] ch = "T" -> "t" [] ch = "H" -> "h" [] ch = "O" -> "o"
    [] ch = "R" -> "r" [] OTHER -> ch

LowerAll(t) == [i \in 1..Len(t) |-> Lower(t[i])]

\* Stored categories: id -> name (the seeder's first two).
CategoryName ==
  [c1 |-> <<"T", "e", "c", "h", "n", "o", "l", "o", "g", "y">>,
   c2 |-> <<"T", "r", "a", "v", "e", "l">>]
CategoryIds == DOMAIN CategoryName

\* A category given in a request: nothing, an ObjectId string (of a stored
\* category or of none) or a name.
NoCategory == [kind |-> "none", id |-> "", name |-> NoText]
CategoryId(c) == [kind |-> "id", id |-> c, name |-> NoText]
CategoryNamed(n) == [kind |-> "name", id |-> "", name |-> n]

\* Casting a string to ObjectId succeeds for an ObjectId string and for any
\* string of 12 characters; a query on _id with another string is rejected
\* (CastError), which every handler answers with 500.
Castable(q) == q.kind = "id" \/ Len(q.name) = 12

\* Category.findOne({ $or: [{ _id: q }, { name: q }] }): the category found, or "".
FindCategory(q) ==
  LET found == {c \in CategoryIds :
                  (q.kind = "id" /\ c = q.id) \/ (q.kind = "name" /\ CategoryName[c] = q.name)}
  IN IF found = {} THEN "" ELSE CHOOSE c \in found : TRUE

\* Category.findOne({ $or: [{ _id: q }, { name: { $regex: /^q$/i } }] })
FindCategoryIgnoringCase(q) ==
  LET found == {c \in CategoryIds :
                  \/ q.kind = "id" /\ c = q.id
                  \/ q.kind = "name" /\ LowerAll(CategoryName[c]) = LowerAll(q.name)}
  IN IF found = {} THEN "" ELSE CHOOSE c \in found : TRUE

ShortTitle == <<"H", "i">>
Content == <<"j", "a", "v", "a", "s", "c", "r", "i", "p", "t">>
Statuses == {"draft", "published", "archived"}
NoStatus == ""

\* body('title').trim().isLength({ min: 5, max: 100 })
ValidTitle(t) == Len(t) >= 5 /\ Len(t) <= 100
\* body('content').trim().isLength({ min: 10 })
ValidContent(c) == Len(c) >= 10

\* { $regex: search, $options: 'i' } for a search text without regex operators:
\* the text occurs somewhere, whatever the case.
RegexMatch(search, t) ==
  \E i \in 0..(Len(t) - Len(search)) :
     SubSeq(LowerAll(t), i + 1, i + Len(search)) = LowerAll(search)

\* Post.create({ ..., status: status || 'published' }) with the schema's defaults.
NewPost(title, content, u, cat, status) ==
  [title |-> title, content |-> content, author |-> u, category |-> cat,
   status |-> IF status = NoStatus THEN "published" ELSE status, viewCount |-> 0]

\* The ids in descending order: .sort({ createdAt: -1 }).
RECURSIVE NewestFirst(_)
NewestFirst(ids) ==
  IF ids = {} THEN <<>>
  ELSE LET m == CHOOSE x \in ids : \A y \in ids : y <= x
       IN <<m>> \o NewestFirst(ids \ {m})

\* A page that starts after page * limit items.
PageSkippingOneMore(seq, page, limit) ==
  SubSeq(seq, page * limit + 1,
         IF (page + 1) * limit < Len(seq) THEN (page + 1) * limit ELSE Len(seq))

\* .skip((page - 1) * limit).limit(limit)
Page(seq, page, limit) ==
  SubSeq(seq, (page - 1) * limit + 1,
         IF page * limit < Len(seq) THEN page * limit ELSE Len(seq))

DefaultLimit == 10

\* Math.ceil(total / limit)
Pages(total, limit) == (total + limit - 1) \div limit

\* A listing that left the status out of its query.
ListMatchesAnyStatus(p, cat, search) ==
  /\ cat # "" => posts[p].category = cat
  /\ search # NoText => RegexMatch(search, posts[p].title) \/ RegexMatch(search, posts[p].content)

\* The query of GET /api/posts: { status: 'published' }, the category when the
\* filter names a stored one, and the search on title or content.
ListMatches(p, cat, search) ==
  /\ posts[p].status = "published"
  /\ cat # "" => posts[p].category = cat
  /\ search # NoText => RegexMatch(search, posts[p].title) \/ RegexMatch(search, posts[p].content)

\* The query of GET /api/posts/category/:categoryId.
CategoryMatches(p, cat) ==
  posts[p].category = cat /\ posts[p].status = "published"

\* The ids in ascending order: the order of insertion, and .sort({ createdAt: 1 }).
RECURSIVE OldestFirst(_)
OldestFirst(ids) ==
  IF ids = {} THEN <<>>
  ELSE LET m == CHOOSE x \in ids : \A y \in ids : x <= y
       IN <<m>> \o OldestFirst(ids \ {m})

\* populate({ path: 'comments', match: { isApproved: true } }) on the virtual
\* that joins the comments whose post is p.
EmbeddedComments(p) ==
  CommentViews(OldestFirst({c \in DOMAIN comments :
                              comments[c].post = p /\ comments[c].isApproved}))

\* post.comments.slice(0, 3)
EmbeddedLimit == 3

\* What a response shows of a post (with the status of the document it was
\* built from).
Item(p) ==
  [id |-> p, status |-> posts[p].status, category |-> posts[p].category,
   viewCount |-> posts[p].viewCount,
   comments |-> SubSeq(EmbeddedComments(p), 1,
                       IF Len(EmbeddedComments(p)) < EmbeddedLimit
                       THEN Len(EmbeddedComments(p)) ELSE EmbeddedLimit)]

Items(seq) == [i \in 1..Len(seq) |-> Item(seq[i])]

CommentsOf(p) == {c \in DOMAIN comments : comments[c].post = p}

\* $sort: { commentsCount: -1, viewCount: -1 }: a goes before b.
TrendsBefore(a, b) ==
  \/ Cardinality(CommentsOf(a)) > Cardinality(CommentsOf(b))
  \/ /\ Cardinality(CommentsOf(a)) = Cardinality(CommentsOf(b))
     /\ posts[a].viewCount > posts[b].viewCount

RECURSIVE Sorted(_)
Sorted(ids) ==
  IF ids = {} THEN <<>>
  ELSE LET m == CHOOSE x \in ids :
                  \A y \in ids \ {x} : TrendsBefore(x, y) \/ (~TrendsBefore(y, x) /\ x < y)
       IN <<m>> \o Sorted(ids \ {m})

TrendingLimit == 5

\* The aggregation of GET /api/posts/trending: $match published, $lookup the
\* comments, $sort, $limit 5.
TrendingPipeline ==
  LET all == Sorted({p \in DOMAIN posts : posts[p].status = "published"})
  IN SubSeq(all, 1, IF Len(all) < TrendingLimit THEN Len(all) ELSE TrendingLimit)

\* The routes of the posts router, in the order they are registered.
Lit(s) == [lit |-> s]
Param(s) == [param |-> s]
Oid(n) == [oid |-> n]

PostsRouter ==
  << [method |-> "GET", path |-> <<>>, handler |-> "list"],
     [method |-> "GET", path |-> <<Param("id")>>, handler |-> "getPost"],
     [method |-> "POST", path |-> <<>>, handler |-> "createPost"],
     [method |-> "PUT", path |-> <<Param("id")>>, handler |-> "putPost"],
     [method |-> "DELETE", path |-> <<Param("id")>>, handler |-> "deletePost"],
     [method |-> "GET", path |-> <<Lit("category"), Param("categoryId")>>, handler |-> "byCategory"],
     [method |-> "GET", path |-> <<Lit("trending")>>, handler |-> "trending"] >>

\* A route pattern matches a path of the same length whose segments equal its
\* fixed segments; a parameter takes any one segment.
MatchesPath(pattern, path) ==
  /\ Len(pattern) = Len(path)
  /\ \A i \in 1..Len(pattern) : "param" \in DOMAIN pattern[i] \/ pattern[i] = path[i]

\* Express hands a request to the first registered route that matches it.
Dispatch(router, method, path) ==
  LET hits == {i \in 1..Len(router) :
                 router[i].method = method /\ MatchesPath(router[i].path, path)}
  IN IF hits = {} THEN "none"
     ELSE router[CHOOSE i \in hits : \A j \in hits : i <= j].handler

\* The paths of the GET requests: the list, a post by id, a category's posts,
\* the trending posts.
TrendingPath == <<Lit("trending")>>
GetPaths ==
  {<<>>, TrendingPath}
  \cup {<<Oid(p)>> : p \in 1..(MaxPosts + 1)}
  \cup {<<Lit("category"), Lit(c)>> : c \in {"c1", "c2", "c9"}}

\* The middleware registered on each posts route, in order.
CreatePostRoute == <<"protect", "validate">>
\* The update route registered without the ownership check.
PutPostRouteUnguarded == <<"protect", "validate">>
PutPostRoute == <<"protect", "isAuthor", "validate">>
DeletePostRoute == <<"protect", "isAuthor">>

\* The query strings tried on the listing routes.
Pagings ==
  {[page |-> 1, limit |-> DefaultLimit], [page |-> 1, limit |-> 1], [page |-> 2, limit |-> 1]}
ListFilters ==
  {[category |-> NoCategory, search |-> NoText],
   [category |-> CategoryId("c2"), search |-> NoText],
   [category |-> CategoryId("c9"), search |-> NoText],
   [category |-> CategoryNamed(<<"T", "r", "a", "v", "e", "l">>), search |-> NoText],
   [category |-> NoCategory, search |-> <<"n", "O", "d">>],
   [category |-> CategoryId("c1"), search |-> <<"s", "c", "r">>]}

\* The bodies tried on POST /api/posts and on PUT /api/posts/:id.
CreatePostBodies ==
  {[title |-> <<"N", "o", "d", "e", "s">>, category |-> CategoryId("c1"), status |-> NoStatus],
   [title |-> <<"T", "r", "a", "v", "e", "l">>, category |-> CategoryId("c2"), status |-> "draft"],
   [title |-> <<"N", "o", "d", "e", "s">>, category |-> CategoryId("c1"), status |-> "archived"],
   [title |-> ShortTitle, category |-> CategoryId("c1"), status |-> NoStatus],
   [title |-> <<"N", "o", "d", "e", "s">>, category |-> CategoryId("c9"), status |-> NoStatus],
   [title |-> <<"N", "o", "d", "e", "s">>,
    category |-> CategoryNamed(<<"t", "R", "a", "v", "e", "l">>), status |-> NoStatus],
   [title |-> <<"N", "o", "d", "e", "s">>, category |-> CategoryId("c1"), status |-> "bogus"]}
PutPostBodies ==
  {[title |-> <<"T", "r", "a", "v", "e", "l">>, category |-> NoCategory, status |-> NoStatus],
   [title |-> NoText, category |-> CategoryId("c2"), status |-> NoStatus],
   [title |-> NoText, category |-> NoCategory, status |-> "draft"],
   [title |-> NoText, category |-> NoCategory, status |-> "published"],
   [title |-> NoText, category |-> NoCategory, status |-> "archived"],
   [title |-> ShortTitle, category |-> NoCategory, status |-> NoStatus],
   [title |-> NoText, category |-> CategoryId("c9"), status |-> NoStatus],
   [title |-> NoText, category |-> NoCategory, status |-> "bogus"]}

GetAnswer(h, path, st) ==
  [handler |-> h, status |-> st, user |-> Anon, id |-> NoId, path |-> path]

\* GET /api/posts: the page of the newest published posts that match.
ListPosts(r, path, cat, search, page, limit) ==
  IF cat # NoCategory /\ ~Castable(cat)
  THEN Respond(r, GetAnswer("list", path, 500))
  ELSE LET c == IF cat = NoCategory THEN "" ELSE FindCategory(cat)
           ids == {p \in DOMAIN posts : ListMatches(p, c, search)}
       IN Respond(r, [handler |-> "list", status |-> 200, user |-> Anon, id |-> NoId,
                      path |-> path, category |-> cat, search |-> search,
                      posts |-> Items(Page(NewestFirst(ids), page, limit)),
                      current |-> page, limit |-> limit,
                      pages |-> Pages(Cardinality(ids), limit),
                      total |-> Cardinality(ids)])

\* GET /api/posts/category/:categoryId: 404 for an unknown category, else the
\* page of its newest published posts.
PostsByCategory(r, path, page, limit) ==
  LET c == path[2].lit
  IN IF c \notin CategoryIds
     THEN Respond(r, GetAnswer("byCategory", path, 404))
     ELSE LET ids == {p \in DOMAIN posts : CategoryMatches(p, c)}
          IN Respond(r, [handler |-> "byCategory", status |-> 200, user |-> Anon, id |-> NoId,
                         path |-> path, category |-> CategoryId(c), search |-> NoText,
                         posts |-> Items(Page(NewestFirst(ids), page, limit)),
                         current |-> page, limit |-> limit,
                         pages |-> Pages(Cardinality(ids), limit),
                         total |-> Cardinality(ids)])

\* GET /api/posts/trending, when a request reaches its handler.
TrendingPosts(r, path) ==
  Respond(r, [handler |-> "trending", status |-> 200, user |-> Anon, id |-> NoId,
              path |-> path, posts |-> Items(TrendingPipeline)])

\* GET /api/posts/:id: Post.findById(req.params.id), which rejects an id that
\* is no ObjectId (500) and finds nothing for an unknown one (404).
GetPostStart(r, path) ==
  IF "oid" \notin DOMAIN path[1]
  THEN Respond(r, GetAnswer("getPost", path, 500))
  ELSE IF path[1].oid \notin DOMAIN posts
  THEN Respond(r, GetAnswer("getPost", path, 404))
  ELSE /\ posts[path[1].oid].viewCount < MaxViews
       /\ Admit(r, "getPost:save", Anon, path[1].oid, posts[path[1].oid],
                [path |-> path, comments |-> EmbeddedComments(path[1].oid)])

\* A GET request on the posts router, up to its handler's first await.
PostsGet(r) ==
  /\ IsIdle(r)
  /\ \E path \in GetPaths :
       LET h == Dispatch(PostsRouter, "GET", path)
       IN CASE h = "list" ->
                 \E f \in ListFilters, pg \in Pagings :
                    ListPosts(r, path, f.category, f.search, pg.page, pg.limit)
            [] h = "getPost" -> GetPostStart(r, path)
            [] h = "byCategory" ->
                 \E pg \in Pagings : PostsByCategory(r, path, pg.page, pg.limit)
            [] h = "trending" -> TrendingPosts(r, path)
  /\ run' = NoRun
  /\ UNCHANGED <<dbVars, fetched, users, categories>>

\* A fetch that forgot to count the view.
NotViewed(doc) == doc

\* post.viewCount += 1
Viewed(doc) == [doc EXCEPT !.viewCount = @ + 1]

\* await post.save(); then the post with its content.
GetPostSave(r) ==
  /\ req[r].pc = "getPost:save"
  /\ LET doc == req[r].doc
         id == req[r].id
         local == Viewed(doc)
     IN /\ posts' = Saved(posts, id, doc, local)
        /\ IF SaveFails(posts, id, doc, local)
           THEN /\ Respond(r, GetAnswer("getPost", req[r].body.path, 500))
                /\ UNCHANGED fetched
           ELSE /\ Respond(r, [handler |-> "getPost", status |-> 200, user |-> Anon, id |-> id,
                               path |-> req[r].body.path,
                               post |-> [status |-> local.status, title |-> local.title,
                                         content |-> local.content,
                                         viewCount |-> local.viewCount,
                                         comments |-> req[r].body.comments]])
                /\ fetched' = [fetched EXCEPT ![id] = @ + 1]
  /\ run' = NoRun
  /\ UNCHANGED <<comments, nextPostId, nextCommentId, users, categories>>

\* The schema's enum on status, checked when a document is saved.
ValidStatus(st) == st \in Statuses

\* POST /api/posts: protect, validation, the category lookup, Post.create.
CreatePost(r, U, B) ==
  /\ IsIdle(r)
  /\ nextPostId <= MaxPosts
  /\ \E u \in U, body \in B :
       LET cat == body.category
           st == RunChain(CreatePostRoute, posts, NoId, u,
                          ValidTitle(body.title) /\ ValidContent(Content))
           c == FindCategoryIgnoringCase(cat)
           doc == NewPost(body.title, Content, u, c, body.status)
           ok == st = 0 /\ Castable(cat) /\ c # "" /\ ValidStatus(doc.status)
       IN /\ Respond(r, Answer("createPost", u, IF ok THEN nextPostId ELSE NoId,
                       IF st # 0 THEN st
                       ELSE IF ~Castable(cat) THEN 500
                       ELSE IF c = "" THEN 400
                       ELSE IF ~ValidStatus(doc.status) THEN 500
                       ELSE 201))
          /\ posts' = IF ok THEN Insert(posts, nextPostId, doc) ELSE posts
          /\ nextPostId' = IF ok THEN nextPostId + 1 ELSE nextPostId
  /\ run' = NoRun
  /\ UNCHANGED <<comments, nextCommentId, fetched, users, categories>>

\* PUT /api/posts/:id: protect, isAuthor(Post) (which loads the post into
\* req.resource), validation, and the category lookup when one is given.
PutPostStart(r, U, B) ==
  /\ IsIdle(r)
  /\ \E u \in U, id \in 1..(MaxPosts + 1), body \in B :
       LET title == body.title
           status == body.status
           cat == body.category
           st == RunChain(PutPostRoute, posts, id, u, title = NoText \/ ValidTitle(title))
           c == IF cat = NoCategory THEN "" ELSE FindCategoryIgnoringCase(cat)
       IN IF st # 0
          THEN Respond(r, Answer("putPost", u, id, st))
          ELSE IF id \notin DOMAIN posts
          THEN Respond(r, Answer("putPost", u, id, 500))
          ELSE IF cat # NoCategory /\ c = ""
          THEN Respond(r, Answer("putPost", u, id, 400))
          ELSE Admit(r, "putPost:save", u, id, posts[id],
                     [title |-> title, category |-> c, status |-> status])
  /\ run' = NoRun
  /\ UNCHANGED <<dbVars, fetched, users, categories>>

\* post.category = categoryDoc._id; if (title) post.title = title;
\* if (status) post.status = status
EditedPost(doc, body) ==
  [doc EXCEPT !.category = IF body.category # "" THEN body.category ELSE @,
              !.title = IF body.title # NoText THEN body.title ELSE @,
              !.status = IF body.status # NoStatus THEN body.status ELSE @]

\* await post.save(): validation of the document, then the update; then 200.
PutPostSave(r) ==
  /\ req[r].pc = "putPost:save"
  /\ LET doc == req[r].doc
         id == req[r].id
         local == EditedPost(doc, req[r].body)
         fails == ~ValidStatus(local.status) \/ SaveFails(posts, id, doc, local)
     IN /\ posts' = IF fails THEN posts ELSE Saved(posts, id, doc, local)
        /\ Respond(r, Answer("putPost", req[r].user, id, IF fails THEN 500 ELSE 200))
  /\ run' = NoRun
  /\ UNCHANGED <<comments, nextPostId, nextCommentId, fetched, users, categories>>

\* DELETE /api/posts/:id: protect, isAuthor(Post).
DeletePostStart(r, U) ==
  /\ IsIdle(r)
  /\ \E u \in U, id \in 1..(MaxPosts + 1) :
       LET st == RunChain(DeletePostRoute, posts, id, u, TRUE)
       IN IF st # 0
          THEN Respond(r, Answer("deletePost", u, id, st))
          ELSE IF id \notin DOMAIN posts
          THEN Respond(r, Answer("deletePost", u, id, 500))
          ELSE Admit(r, "deletePost:remove", u, id, posts[id], NoBody)
  /\ run' = NoRun
  /\ UNCHANGED <<dbVars, fetched, users, categories>>

\* await post.remove(); then 200.
DeletePostRemove(r) ==
  /\ req[r].pc = "deletePost:remove"
  /\ posts' = Remove(posts, req[r].id)
  /\ Respond(r, Answer("deletePost", req[r].user, req[r].id, 200))
  /\ run' = NoRun
  /\ UNCHANGED <<comments, nextPostId, nextCommentId, fetched, users, categories>>

----------------------------------------------------------------------------
(* Reads of comments *)

\* The query strings tried on the listings of comments and of users.
ThreadPagings ==
  Pagings \cup {[page |-> 3, limit |-> 1], [page |-> 1, limit |-> 2], [page |-> 2, limit |-> 2]}

\* A query that forgets the condition on parentComment.
MatchesAtAnyDepth(c, postId) == comments[c].post = postId /\ comments[c].isApproved

\* { post: req.params.postId, parentComment: null, isApproved: true }
TopLevelMatches(c, postId) ==
  /\ comments[c].post = postId
  /\ comments[c].parentComment = NoId
  /\ comments[c].isApproved

\* GET /api/comments/post/:postId: 404 for an unknown post, else the page of
\* its newest approved top-level comments.
GetComments(r) ==
  /\ IsIdle(r)
  /\ \E postId \in 1..(MaxPosts + 1), pg \in ThreadPagings :
       IF postId \notin DOMAIN posts
       THEN Respond(r, Answer("comments", Anon, postId, 404))
       ELSE LET ids == {c \in DOMAIN comments : TopLevelMatches(c, postId)}
            IN Respond(r, [handler |-> "comments", status |-> 200, user |-> Anon,
                           id |-> postId,
                           comments |-> CommentViews(Page(NewestFirst(ids), pg.page, pg.limit)),
                           current |-> pg.page, limit |-> pg.limit,
                           pages |-> Pages(Cardinality(ids), pg.limit),
                           total |-> Cardinality(ids)])
  /\ run' = NoRun
  /\ UNCHANGED <<dbVars, fetched, users, categories>>

\* { parentComment: req.params.id, isApproved: true }
ReplyMatches(c, id) == comments[c].parentComment = id /\ comments[c].isApproved

\* GET /api/comments/:id/replies: 404 for an unknown comment, else its approved
\* replies, oldest first.
GetReplies(r) ==
  /\ IsIdle(r)
  /\ \E id \in 1..(MaxComments + 1) :
       IF id \notin DOMAIN comments
       THEN Respond(r, Answer("replies", Anon, id, 404))
       ELSE Respond(r, [handler |-> "replies", status |-> 200, user |-> Anon, id |-> id,
                        parentApproved |-> comments[id].isApproved,
                        replies |-> CommentViews(OldestFirst(
                                      {c \in DOMAIN comments : ReplyMatches(c, id)}))])
  /\ run' = NoRun
  /\ UNCHANGED <<dbVars, fetched, users, categories>>

----------------------------------------------------------------------------
(* The users router *)

GetMeRoute == <<"protect">>
ListUsersRoute == <<"protect", "isAdmin">>
GetUserRoute == <<"protect", "isAdmin">>
PutMeRoute == <<"protect">>
PatchStatusRoute == <<"protect", "isAdmin">>

\* The order of the seeder's insertion, which is the order of createdAt.
UserIndex == [u1 |-> 1, u2 |-> 2, admin |-> 3]
UserAt(i) == CHOOSE u \in Users : UserIndex[u] = i
NewestUsersFirst ==
  LET order == NewestFirst({UserIndex[u] : u \in DOMAIN users})
  IN [i \in 1..Len(order) |-> UserAt(order[i])]

\* A response that serializes the stored document as it is.
WholeUser(u, doc) ==
  [id |-> u, name |-> doc.name, role |-> RoleOf(u), bio |-> doc.bio,
   isActive |-> doc.isActive, password |-> doc.password]

\* .select('-password') and the fields the handlers of GET copy into the response.
Profile(u, doc) ==
  [id |-> u, name |-> doc.name, role |-> RoleOf(u), bio |-> doc.bio,
   isActive |-> doc.isActive]

\* The fields PUT /me copies into the response.
UpdatedProfile(u, doc) ==
  [id |-> u, name |-> doc.name, email |-> doc.email, bio |-> doc.bio, avatar |-> doc.avatar]

\* The fields PATCH /:id/status copies into the response.
StatusOf(u, doc) == [id |-> u, name |-> doc.name, isActive |-> doc.isActive]

\* GET /api/users/me: protect, then the principal's own profile.
GetMe(r, U) ==
  /\ IsIdle(r)
  /\ \E u \in U :
       LET st == RunChain(GetMeRoute, users, NoId, u, TRUE)
       IN IF st # 0
          THEN Respond(r, [handler |-> "getMe", status |-> st, user |-> u, id |-> NoId])
          ELSE Respond(r, [handler |-> "getMe", status |-> 200, user |-> u, id |-> NoId,
                           users |-> <<Profile(u, users[u])>>])
  /\ run' = NoRun
  /\ UNCHANGED <<dbVars, fetched, users, categories>>

\* GET /api/users: protect, isAdmin, then the page of the newest users.
ListUsers(r, U) ==
  /\ IsIdle(r)
  /\ \E u \in U, pg \in ThreadPagings :
       LET st == RunChain(ListUsersRoute, users, NoId, u, TRUE)
           page == Page(NewestUsersFirst, pg.page, pg.limit)
       IN IF st # 0
          THEN Respond(r, [handler |-> "users", status |-> st, user |-> u, id |-> NoId])
          ELSE Respond(r, [handler |-> "users", status |-> 200, user |-> u, id |-> NoId,
                           users |-> [i \in 1..Len(page) |-> Profile(page[i], users[page[i]])],
                           current |-> pg.page, limit |-> pg.limit,
                           pages |-> Pages(Cardinality(DOMAIN users), pg.limit),
                           total |-> Cardinality(DOMAIN users)])
  /\ run' = NoRun
  /\ UNCHANGED <<dbVars, fetched, users, categories>>

\* The ids tried on the routes of one user: the stored users and an unknown one.
UserIdInputs == Users \cup {"u9"}

\* GET /api/users/:id: protect, isAdmin, then the profile or 404.
GetUser(r, U) ==
  /\ IsIdle(r)
  /\ \E u \in U, id \in UserIdInputs :
       LET st == RunChain(GetUserRoute, users, NoId, u, TRUE)
       IN IF st # 0
          THEN Respond(r, [handler |-> "getUser", status |-> st, user |-> u, id |-> NoId])
          ELSE IF id \notin DOMAIN users
          THEN Respond(r, [handler |-> "getUser", status |-> 404, user |-> u, id |-> NoId])
          ELSE Respond(r, [handler |-> "getUser", status |-> 200, user |-> u, id |-> NoId,
                           users |-> <<Profile(id, users[id])>>])
  /\ run' = NoRun
  /\ UNCHANGED <<dbVars, fetched, users, categories>>

\* The bodies tried on PUT /api/users/me.
NoName == ""
\* The bodies tried on PUT /api/users/me: one with every field of a user, one
\* with an empty name and bio and no avatar.
PutMeBodies ==
  {[name |-> "Jo", bio |-> "hi", avatar |-> "jo.png", email |-> "jo@example.com",
    role |-> "admin", isActive |-> FALSE, password |-> "chosen"],
   [name |-> NoName, bio |-> ""]}

\* PUT /api/users/me: protect, then User.findById(req.user.id).
PutMeStart(r, U) ==
  /\ IsIdle(r)
  /\ \E u \in U, body \in PutMeBodies :
       LET st == RunChain(PutMeRoute, users, NoId, u, TRUE)
       IN IF st # 0
          THEN Respond(r, [handler |-> "putMe", status |-> st, user |-> u, id |-> NoId])
          ELSE Admit(r, "putMe:save", u, NoId, users[u], body)
  /\ run' = NoRun
  /\ UNCHANGED <<dbVars, fetched, users, categories>>

\* Object.assign(user, req.body): every field of the body is assigned.
EditedUserFromBody(doc, body) ==
  [f \in DOMAIN doc |-> IF f \in DOMAIN body THEN body[f] ELSE doc[f]]

\* const { name, bio, avatar } = req.body; if (name) user.name = name;
\* if (bio !== undefined) user.bio = bio; if (avatar !== undefined) user.avatar = avatar
EditedUser(doc, body) ==
  [doc EXCEPT !.name = IF "name" \in DOMAIN body /\ body.name # NoName THEN body.name ELSE @,
              !.bio = IF "bio" \in DOMAIN body THEN body.bio ELSE @,
              !.avatar = IF "avatar" \in DOMAIN body THEN body.avatar ELSE @]

\* await user.save(); then the updated profile.
PutMeSave(r) ==
  /\ req[r].pc = "putMe:save"
  /\ LET u == req[r].user
         local == EditedUser(req[r].doc, req[r].body)
     IN /\ users' = Saved(users, u, req[r].doc, local)
        /\ Respond(r, [handler |-> "putMe", status |-> 200, user |-> u, id |-> NoId,
                       users |-> <<UpdatedProfile(u, local)>>])
  /\ run' = NoRun
  /\ UNCHANGED <<dbVars, fetched, categories>>

\* PATCH /api/users/:id/status: protect, isAdmin, then User.findById.
PatchStatusStart(r, U) ==
  /\ IsIdle(r)
  /\ \E u \in U, id \in UserIdInputs, isActive \in BOOLEAN :
       LET st == RunChain(PatchStatusRoute, users, NoId, u, TRUE)
       IN IF st # 0
          THEN Respond(r, [handler |-> "patchStatus", status |-> st, user |-> u, id |-> NoId])
          ELSE IF id \notin DOMAIN users
          THEN Respond(r, [handler |-> "patchStatus", status |-> 404, user |-> u, id |-> NoId])
          ELSE Admit(r, "patchStatus:save", u, NoId, users[id],
                     [target |-> id, isActive |-> isActive])
  /\ run' = NoRun
  /\ UNCHANGED <<dbVars, fetched, users, categories>>

\* user.isActive = isActive; await user.save(); then the user's status.
PatchStatusSave(r) ==
  /\ req[r].pc = "patchStatus:save"
  /\ LET id == req[r].body.target
         local == [req[r].doc EXCEPT !.isActive = req[r].body.isActive]
     IN /\ users' = Saved(users, id, req[r].doc, local)
        /\ Respond(r, [handler |-> "patchStatus", status |-> 200, user |-> req[r].user,
                       id |-> NoId, users |-> <<StatusOf(id, local)>>])
  /\ run' = NoRun
  /\ UNCHANGED <<dbVars, fetched, categories>>

----------------------------------------------------------------------------
(* The Category schema's slug *)

Alnum ==
  {"a", "b", "c", "d", "e", "f", "g", "h", "i", "j", "k", "l", "m", "n", "o", "p", "q",
   "r", "s", "t", "u", "v", "w", "x", "y", "z", "0", "1", "2", "3", "4", "5", "6", "7",
   "8", "9"}

\* The rest of t after its leading characters outside a-z0-9.
RECURSIVE SkipRun(_)
SkipRun(t) == IF t = <<>> \/ Head(t) \in Alnum THEN t ELSE SkipRun(Tail(t))

\* A replacement of every character outside a-z0-9 by a hyphen of its own.
RECURSIVE HyphenatedEach(_)
HyphenatedEach(t) ==
  IF t = <<>> THEN <<>>
  ELSE <<IF Head(t) \in Alnum THEN Head(t) ELSE "-">> \o HyphenatedEach(Tail(t))

\* .replace(/[^a-z0-9]+/g, '-')
RECURSIVE Hyphenated(_)
Hyphenated(t) ==
  IF t = <<>> THEN <<>>
  ELSE IF Head(t) \in Alnum THEN <<Head(t)>> \o Hyphenated(Tail(t))
  ELSE <<"-">> \o Hyphenated(SkipRun(t))

\* .replace(/(^-|-$)/g, '')
Stripped(t) ==
  LET a == IF t # <<>> /\ Head(t) = "-" THEN Tail(t) ELSE t
  IN IF a # <<>> /\ a[Len(a)] = "-" THEN SubSeq(a, 1, Len(a) - 1) ELSE a

\* this.name.toLowerCase().replace(/[^a-z0-9]+/g, '-').replace(/(^-|-$)/g, '')
Slug(name) == Stripped(Hyphenated(LowerAll(name)))

\* pre('save'): the slug is recomputed only when the name is modified.
PreSave(doc, modified) == IF modified THEN [doc EXCEPT !.slug = Slug(doc.name)] ELSE doc

\* The names tried: every string of up to MaxNameLen characters of a small
\* alphabet, and the name of the documented scenario.
SlugAlphabet == {"T", "e", "1", " ", "!", "-"}
TechNotes == <<"T", "e", "c", "h", " ", "N", "o", "t", "e", "s", "!", "!">>
Names == UNION {[1..n -> SlugAlphabet] : n \in 0..MaxNameLen} \cup {TechNotes}
OldSlug == <<"o", "l", "d">>

\* A save of a Category document: the pre('save') hook runs, then the
\* document is what the store holds.
SaveCategory(r) ==
  /\ IsIdle(r)
  /\ \E name \in Names, modified \in BOOLEAN :
       LET doc == PreSave([name |-> name, slug |-> OldSlug], modified)
       IN Respond(r, [handler |-> "saveCategory", status |-> 201, user |-> Anon, id |-> NoId,
                      modified |-> modified, name |-> doc.name, slug |-> doc.slug])
  /\ run' = NoRun
  /\ UNCHANGED <<dbVars, fetched, users, categories>>


\* The setter of name (trim: true).
RECURSIVE TrimStart(_)
TrimStart(t) == IF t # <<>> /\ Head(t) = " " THEN TrimStart(Tail(t)) ELSE t
RECURSIVE TrimEnd(_)
TrimEnd(t) == IF t # <<>> /\ t[Len(t)] = " " THEN TrimEnd(SubSeq(t, 1, Len(t) - 1)) ELSE t
Trim(t) == TrimEnd(TrimStart(t))

\* The slug of a document that has none.
NoSlug == <<"(undefined)">>

\* new Category({ name, description }): the defaults of the schema.
NewCategory(name, description) ==
  [name |-> Trim(name), description |-> description, slug |-> NoSlug, isActive |-> TRUE]

\* Category.insertMany(categories): the documents are validated and inserted
\* as they are; insertMany does not run the pre('save') hook.
InsertMany(names) == [c \in DOMAIN names |-> NewCategory(names[c], "seeded")]

\* The unique indexes on name and on slug reject a second document with the
\* same value.
Duplicate(coll, c, doc) ==
  \E d \in DOMAIN coll \ {c} :
     coll[d].name = doc.name \/ (doc.slug # NoSlug /\ coll[d].slug = doc.slug)

\* doc.save() of a Category: validation (name is required), the pre('save')
\* hook with isModified('name'), then the write of the document.
HookedCategory(coll, c, local) ==
  PreSave(local, c \notin DOMAIN coll \/ local.name # coll[c].name)

CategorySaveFails(coll, c, local) ==
  local.name = <<>> \/ Duplicate(coll, c, HookedCategory(coll, c, local))

SavedCategory(coll, c, local) ==
  IF CategorySaveFails(coll, c, local) THEN coll
  ELSE [d \in DOMAIN coll \cup {c} |-> IF d = c THEN HookedCategory(coll, c, local) ELSE coll[d]]

\* The id of a created category, the names and the descriptions given.
CreatedCategoryId == "c3"
CategoryNames ==
  {<<"T", "e">>, <<"t", "e", "!">>, <<" ", "T", " ", "1", " ">>, <<"T", "r", "a", "v", "e", "l">>,
   <<" ">>}
Descriptions == {"seeded", "edited"}

\* The answer of a category save.
CategoryAnswer(c, local) ==
  [handler |-> "category", status |-> IF CategorySaveFails(categories, c, local) THEN 400 ELSE 200,
   user |-> Anon, id |-> NoId, category |-> c]

\* A creation: new Category({ name, description }).save().
CreateCategory(r) ==
  /\ IsIdle(r)
  /\ CreatedCategoryId \notin DOMAIN categories
  /\ \E name \in CategoryNames :
       LET local == NewCategory(name, "edited")
       IN /\ categories' = SavedCategory(categories, CreatedCategoryId, local)
          /\ Respond(r, CategoryAnswer(CreatedCategoryId, local))
  /\ run' = NoRun
  /\ UNCHANGED <<dbVars, fetched, users>>

\* A rename: category.name = name; category.save().
RenameCategory(r) ==
  /\ IsIdle(r)
  /\ \E c \in DOMAIN categories, name \in CategoryNames :
       LET local == [categories[c] EXCEPT !.name = Trim(name)]
       IN /\ categories' = SavedCategory(categories, c, local)
          /\ Respond(r, CategoryAnswer(c, local))
  /\ run' = NoRun
  /\ UNCHANGED <<dbVars, fetched, users>>

\* An update of other fields: description and isActive assigned, then save().
UpdateCategory(r) ==
  /\ IsIdle(r)
  /\ \E c \in DOMAIN categories, description \in Descriptions, isActive \in BOOLEAN :
       LET local == [categories[c] EXCEPT !.description = description, !.isActive = isActive]
       IN /\ categories' = SavedCategory(categories, c, local)
          /\ Respond(r, CategoryAnswer(c, local))
  /\ run' = NoRun
  /\ UNCHANGED <<dbVars, fetched, users>>

----------------------------------------------------------------------------
(* Specifications *)

\* A seeded store, scaled down: one published post of the first user in the
\* first category and one approved top-level comment of that user on it.
SeedPost == NewPost(<<"N", "o", "d", "e", "s">>, Content, "u1", "c1", "published")

\* The users of the seeder, as stored: the password is kept hashed and every
\* user starts active.
SeedName == [u1 |-> "John Doe", u2 |-> "Jane Smith", admin |-> "Admin User"]
SeedEmail == [u1 |-> "john@example.com", u2 |-> "jane@example.com", admin |-> "admin@example.com"]
SeedUser(u) ==
  [name |-> SeedName[u], email |-> SeedEmail[u], role |-> RoleOf(u), bio |-> "", avatar |-> "",
   isActive |-> TRUE, password |-> "hash"]

Init ==
  /\ posts = (1 :> SeedPost)
  /\ comments = (1 :> NewComment(NewText, 1, "u1", NoId))
  /\ users = [u \in Users |-> SeedUser(u)]
  /\ categories = InsertMany(CategoryName)
  /\ nextPostId = 2
  /\ nextCommentId = 2
  /\ req = [r \in Slots |-> Idle]
  /\ resp = NoResp
  /\ run = NoRun
  /\ fetched = [p \in PostIds |-> 0]

CreateComment(r, U, cap) ==
  \/ CreateCommentStart(r, U, cap) \/ CreateCommentParent(r)
  \/ CreateCommentCreate(r) \/ CreateCommentPush(r)
PutComment(r, U) == PutCommentStart(r, U) \/ PutCommentSave(r)
DeleteComment(r, U) ==
  \/ DeleteCommentStart(r, U) \/ DeleteCommentPull(r) \/ DeleteCommentRemove(r)
Like(r, U, cap) == LikeStart(r, U, cap) \/ LikeSave(r)
Approve(r, U) == ApproveStart(r, U) \/ ApproveSave(r)

\* All comment requests, one at a time.
NextCommentsSeq ==
  \/ CreateComment(1, {"u1"}, MaxComments)
  \/ PutComment(1, {"u1", "u2"})
  \/ DeleteComment(1, {"u1", "admin"})
  \/ Like(1, {"u2"}, MaxTreeLikes)
  \/ Approve(1, {"admin"})
SpecCommentsSeq == Init /\ [][NextCommentsSeq]_vars

\* Creations and deletions of comments, interleaved at their awaits.
NextTree ==
  \E r \in Slots : CreateComment(r, {"u1", "admin"}, MaxComments) \/ DeleteComment(r, {"u1", "admin"})
SpecTree == Init /\ [][NextTree]_vars

\* Like toggles, interleaved at their awaits.
NextLikes == \E r \in Slots : Like(r, Principals, MaxVersion)
SpecLikes == Init /\ [][NextLikes]_vars

\* Like toggles, one at a time.
NextLikesSeq == Like(1, Principals, MaxVersion)
SpecLikesSeq == Init /\ [][NextLikesSeq]_vars

PutPost(r, U, B) == PutPostStart(r, U, B) \/ PutPostSave(r)
DeletePost(r, U) == DeletePostStart(r, U) \/ DeletePostRemove(r)
GetPosts(r) == PostsGet(r) \/ GetPostSave(r)

\* All post requests, one at a time.
NextPostsSeq ==
  \/ GetPosts(1)
  \/ CreatePost(1, {"u2", Anon}, CreatePostBodies)
  \/ PutPost(1, {"u1", "u2"}, PutPostBodies)
  \/ DeletePost(1, {"admin"})
SpecPostsSeq == Init /\ [][NextPostsSeq]_vars

\* The post bodies that the authorization runs send.
AuthzCreateBodies ==
  {[title |-> <<"N", "o", "d", "e", "s">>, category |-> CategoryId("c1"), status |-> NoStatus]}
AuthzPutBodies ==
  {[title |-> <<"T", "r", "a", "v", "e", "l">>, category |-> NoCategory, status |-> NoStatus],
   [title |-> NoText, category |-> NoCategory, status |-> "draft"]}

\* Updates and deletions of posts and of comments by every principal, one
\* request at a time, with the creations that give them other authors.
NextAuthz ==
  \/ PutPost(1, Principals, AuthzPutBodies) \/ DeletePost(1, Principals)
  \/ PutComment(1, Principals) \/ DeleteComment(1, Principals)
  \/ CreatePost(1, {"u2"}, AuthzCreateBodies) \/ CreateComment(1, {"u2"}, MaxComments)
SpecAuthz == Init /\ [][NextAuthz]_vars

\* The bodies of the posts that the listing runs create.
PagingCreateBodies ==
  {[title |-> <<"N", "o", "d", "e", "s">>, category |-> CategoryId("c1"), status |-> NoStatus],
   [title |-> <<"T", "r", "a", "v", "e", "l">>, category |-> CategoryId("c2"), status |-> "draft"]}

\* The paginated listings of posts, of comments and of users, one request at
\* a time, between creations of posts and of comments.
NextPaging ==
  \/ GetPosts(1)
  \/ GetComments(1)
  \/ ListUsers(1, {"admin", "u1"})
  \/ CreatePost(1, {"u2"}, PagingCreateBodies)
  \/ CreateComment(1, {"u1"}, MaxThread)
SpecPaging == Init /\ [][NextPaging]_vars

\* Threads of up to MaxThread comments: creation, approval, deletion and the
\* public reads of comments, one request at a time.
NextThread ==
  \/ CreateComment(1, {"u1"}, MaxThread)
  \/ DeleteComment(1, {"u1"})
  \/ Approve(1, {"admin"})
  \/ GetComments(1)
  \/ GetReplies(1)
  \/ GetPosts(1)
SpecThread == Init /\ [][NextThread]_vars

\* Saves of categories under every name.
NextSlug == SaveCategory(1)
SpecSlug == Init /\ [][NextSlug]_vars

\* Saves of stored categories, one at a time.
NextCategories == CreateCategory(1) \/ RenameCategory(1) \/ UpdateCategory(1)
SpecCategories == Init /\ [][NextCategories]_vars

PutMe(r, U) == PutMeStart(r, U) \/ PutMeSave(r)
PatchStatus(r, U) == PatchStatusStart(r, U) \/ PatchStatusSave(r)

\* The users router, one request at a time.
NextUsers ==
  \/ GetMe(1, Principals)
  \/ ListUsers(1, {"admin", "u1"})
  \/ GetUser(1, {"admin", "u2"})
  \/ PutMe(1, {"u1", Anon})
  \/ PatchStatus(1, {"admin", "u1"})
SpecUsers == Init /\ [][NextUsers]_vars

\* The requests that write users and comments, by admins and by others,
\* interleaved at their awaits.
NextFlags ==
  \E r \in Slots :
     \/ PatchStatus(r, {"admin", "u2"})
     \/ PutMe(r, {"u1"})
     \/ Approve(r, {"admin", "u2", Anon})
     \/ PutComment(r, {"u1"})
SpecFlags == Init /\ [][NextFlags]_vars

\* The update tried while posts are fetched.
RacePutBodies ==
  {[title |-> <<"T", "r", "a", "v", "e", "l">>, category |-> NoCategory, status |-> NoStatus]}

\* GET /api/posts/:id alone, up to the handler's first await.
FetchStart(r) ==
  /\ IsIdle(r)
  /\ \E p \in 1..(MaxPosts + 1) :
       /\ Dispatch(PostsRouter, "GET", <<Oid(p)>>) = "getPost"
       /\ GetPostStart(r, <<Oid(p)>>)
  /\ run' = NoRun
  /\ UNCHANGED <<dbVars, fetched, users, categories>>

Fetch(r) == FetchStart(r) \/ GetPostSave(r)

\* Fetches and updates of posts and like toggles, two requests interleaved at
\* their awaits.
NextRaces ==
  \E r \in Slots :
     \/ Fetch(r)
     \/ PutPost(r, {"u1"}, RacePutBodies)
     \/ Like(r, {"u1", "u2"}, MaxVersion)
SpecRaces == Init /\ [][NextRaces]_vars

----------------------------------------------------------------------------
(* Properties of the comment tree and of the likes *)

AllIdle == \A r \in Slots : IsIdle(r)

\* The comment reached from c by following parentComment n times (NoId when
\* the chain ends at null or at a comment that is no longer stored).
RECURSIVE Ancestor(_, _)
Ancestor(c, n) ==
  IF n = 0 THEN c
  ELSE LET a == Ancestor(c, n - 1)
       IN IF a \in DOMAIN comments THEN comments[a].parentComment ELSE NoId

IsOwnAncestor(c) == \E n \in 1..MaxComments : Ancestor(c, n) = c

\* C2: no stored comment is its own ancestor: the parentComment relation has
\* no cycle, after any sequence of create, update, delete, like and approve.
C2_NoParentCycle == \A c \in DOMAIN comments : ~IsOwnAncestor(c)

\* A reply is stored under a stored parent and has been edited, liked or
\* disapproved, or its parent has been deleted: the operations of the claim acted.
C2_Witness ==
  \E c \in DOMAIN comments :
     /\ comments[c].parentComment \in DOMAIN comments
     /\ comments[c].isEdited
     /\ comments[comments[c].parentComment].likes # <<>>
     /\ ~comments[comments[c].parentComment].isApproved

Children(p) == {c \in DOMAIN comments : comments[c].parentComment = p}

\* C3: whenever no request is in progress, the replies of every stored comment
\* are exactly the stored comments whose parentComment it is.
C3_RepliesMatchChildren ==
  AllIdle => \A p \in DOMAIN comments : Elements(comments[p].replies) = Children(p)

NoDuplicates(seq) == \A i, j \in 1..Len(seq) : seq[i] = seq[j] => i = j

\* C4: no user occurs more than once in the likes of a comment.
C4_LikesDeduplicated == \A c \in DOMAIN comments : NoDuplicates(comments[c].likes)

\* C5 as stated: after three consecutive toggles of one user on one comment
\* the likes count is the count before the first of them.
C5_BackToCountBefore == Len(run.counts) = 4 => run.counts[4] = run.counts[1]

\* C5 as amended: after three consecutive toggles of one user on one comment
\* the likes count is the count after the first of them (and two consecutive
\* toggles give back the count before them).
C5_BackToCountAfterFirst ==
  /\ Len(run.counts) = 4 => run.counts[4] = run.counts[2]
  /\ Len(run.counts) >= 3 => run.counts[3] = run.counts[1]

\* Three consecutive toggles of one user on one comment have been answered.
C5_Witness == Len(run.counts) = 4 /\ run.counts[1] # run.counts[2]

----------------------------------------------------------------------------
(* Properties of the authorization of updates and deletions *)

Guarded == {"putPost", "deletePost", "putComment", "deleteComment"}
WritePcs ==
  {"putPost:save", "deletePost:remove", "putComment:save", "deleteComment:pull",
   "deleteComment:remove"}
Target(h) == IF h \in {"putPost", "deletePost"} THEN posts ELSE comments
MayChange(u, author) == u = author \/ (u \in Users /\ RoleOf(u) = "admin")

\* C1: a PUT or DELETE of a stored post or comment by an authenticated
\* principal who is neither its author nor an admin is answered 403 and leaves
\* the posts and the comments as they were; every request that has passed the
\* middleware towards a write is the author's or an admin's.
C1_ForbiddenAndUnchanged ==
  [][/\ \A r \in Slots :
          req[r].pc \in WritePcs => MayChange(req[r].user, req[r].doc.author)
     /\ (/\ resp'.handler \in Guarded
         /\ resp'.user \in Users
         /\ resp'.id \in DOMAIN Target(resp'.handler)
         /\ ~MayChange(resp'.user, Target(resp'.handler)[resp'.id].author))
        => resp'.status = 403 /\ UNCHANGED <<posts, comments>>]_vars

\* A user has just been refused the update of another user's post, which is
\* still stored, while that other user has changed a post of their own.
C1_Witness ==
  /\ resp.handler = "putPost" /\ resp.status = 403 /\ resp.user = "u1"
  /\ resp.id \in DOMAIN posts
  /\ posts[resp.id].author = "u2"
  /\ posts[resp.id].status = "draft"

----------------------------------------------------------------------------
(* Properties of the public reads of posts *)

Listings == {"list", "byCategory", "trending"}

\* C6: every post in the answer of the list, of the by-category listing and of
\* the trending aggregation is published, whatever the filters; so is every
\* post the trending pipeline selects.
C6_ListingsOnlyPublished ==
  /\ resp.handler \in Listings /\ resp.status = 200
       => \A i \in 1..Len(resp.posts) : resp.posts[i].status = "published"
  /\ \A i \in 1..Len(TrendingPipeline) : posts[TrendingPipeline[i]].status = "published"

\* An unfiltered list has returned the one published post while a second post,
\* draft or archived, is stored.
C6_Witness ==
  /\ resp.handler = "list" /\ resp.status = 200
  /\ resp.category = NoCategory /\ resp.search = NoText
  /\ Len(resp.posts) = 1
  /\ \E p \in DOMAIN posts : posts[p].status # "published"

\* C7: no read of a post by an unauthenticated client, fetch-by-id included,
\* answers with the content of a draft or archived post.
C7_NoUnpublishedContent ==
  resp.handler = "getPost" /\ resp.status = 200 => resp.post.status = "published"

\* C8: with one request at a time, the viewCount of every stored post is the
\* number of successful fetches of it by id; the listings leave every post as
\* it was.
C8_ViewCountCountsFetches ==
  [][/\ \A p \in DOMAIN posts' : posts'[p].viewCount = fetched'[p]
     /\ resp'.handler \in Listings => UNCHANGED posts]_vars

\* A post has been fetched twice, and a listing has just been answered.
C8_Witness ==
  /\ \E p \in DOMAIN posts : fetched[p] = 2 /\ posts[p].viewCount = 2
  /\ resp.handler \in Listings /\ resp.status = 200

IsGetOf(path) == "path" \in DOMAIN resp /\ resp.path = path
Published == {p \in DOMAIN posts : posts[p].status = "published"}

\* C9: the answer to GET /api/posts/trending is at most 5 published posts in
\* descending order of (comment count, viewCount), and no published post left
\* out goes before one that is included.
C9_TrendingIsTopFive ==
  IsGetOf(TrendingPath) =>
    /\ resp.status = 200
    /\ "posts" \in DOMAIN resp
    /\ Len(resp.posts) <= TrendingLimit
    /\ \A i \in 1..Len(resp.posts) : resp.posts[i].id \in Published
    /\ \A i, j \in 1..Len(resp.posts) :
          i < j => ~TrendsBefore(resp.posts[j].id, resp.posts[i].id)
    /\ \A p \in Published :
          (\A i \in 1..Len(resp.posts) : resp.posts[i].id # p)
            => \A i \in 1..Len(resp.posts) : ~TrendsBefore(p, resp.posts[i].id)

\* C10: GET /api/posts/trending is answered by the trending handler, with 200.
C10_TrendingReachesItsHandler ==
  IsGetOf(TrendingPath) => resp.handler = "trending" /\ resp.status = 200

----------------------------------------------------------------------------
(* Properties of pagination *)

Paginated == {"list", "byCategory", "comments", "users"}

\* The ids of the items of a listing's response, in its order.
Returned(rsp) ==
  CASE rsp.handler \in {"list", "byCategory"} -> [i \in 1..Len(rsp.posts) |-> rsp.posts[i].id]
    [] rsp.handler = "comments" -> [i \in 1..Len(rsp.comments) |-> rsp.comments[i].id]
    [] rsp.handler = "users" -> [i \in 1..Len(rsp.users) |-> rsp.users[i].id]

\* All the items that the query of a listing's response matches in the store,
\* in the order of the listing.
MatchingOrder(rsp) ==
  CASE rsp.handler = "list" ->
         NewestFirst({p \in DOMAIN posts :
                        ListMatches(p, IF rsp.category = NoCategory THEN ""
                                       ELSE FindCategory(rsp.category), rsp.search)})
    [] rsp.handler = "byCategory" ->
         NewestFirst({p \in DOMAIN posts : CategoryMatches(p, rsp.category.id)})
    [] rsp.handler = "comments" ->
         NewestFirst({c \in DOMAIN comments : TopLevelMatches(c, rsp.id)})
    [] rsp.handler = "users" -> NewestUsersFirst

----------------------------------------------------------------------------
(* Frame of the deletion of a comment *)

Deleting(r) == req[r].pc \in {"deleteComment:pull", "deleteComment:remove"}

\* C12: in every step of a DELETE of a comment, the replies list of every
\* comment other than the parent of the deleted one stays as it is (so a
\* top-level comment's deletion changes none); the step that detaches a reply
\* takes exactly its id out of the parent's list; and once the deletion is
\* answered 200 the parent no longer lists it.
C12_DetachesFromItsParentOnly ==
  [][\A r \in Slots : Deleting(r) /\ req'[r] # req[r] =>
       LET id == req[r].id
           parent == req[r].doc.parentComment
       IN /\ \A c \in DOMAIN comments \cap DOMAIN comments' :
                c # parent => comments'[c].replies = comments[c].replies
          /\ (req[r].pc = "deleteComment:pull" /\ parent \in DOMAIN comments)
               => /\ Elements(comments'[parent].replies)
                       = Elements(comments[parent].replies) \ {id}
                  /\ Len(comments'[parent].replies) = Len(comments[parent].replies) - 1
          /\ (req[r].pc = "deleteComment:remove" /\ parent \in DOMAIN comments')
               => /\ comments'[parent].replies = comments[parent].replies
                  /\ id \notin Elements(comments'[parent].replies)]_vars

\* The DELETE of reply 2 of comment 1 has detached it and is about to remove
\* it, while comment 1 still lists its other reply 3.
C12_Witness ==
  /\ req[1].pc = "deleteComment:remove"
  /\ req[1].id = 2 /\ req[1].doc.parentComment = 1
  /\ 1 \in DOMAIN comments /\ comments[1].replies = <<3>>

\* C13: a DELETE of a comment removes that comment and nothing else; every
\* stored reply of it stays stored, with all its fields, its parentComment
\* (the id of the deleted comment) included.
C13_RepliesSurviveTheirParent ==
  [][\A r \in Slots : Deleting(r) /\ req'[r] # req[r] =>
       LET id == req[r].id
       IN /\ \A c \in DOMAIN comments :
                comments[c].parentComment = id
                  => c \in DOMAIN comments' /\ comments'[c] = comments[c]
          /\ DOMAIN comments' =
               IF req[r].pc = "deleteComment:remove"
               THEN DOMAIN comments \ {id} ELSE DOMAIN comments]_vars

\* A comment with a reply has been deleted: the reply is stored and its
\* parentComment is the id of a comment that is not.
C13_Witness ==
  /\ resp.handler = "deleteComment" /\ resp.status = 200
  /\ resp.id \notin DOMAIN comments
  /\ \E c \in DOMAIN comments : comments[c].parentComment = resp.id

----------------------------------------------------------------------------
(* Properties of the public reads of comments *)

\* The parent of the comment a view was built from is approved (or there is none).
UnderApproved(view) ==
  view.parentComment \in DOMAIN comments => comments[view.parentComment].isApproved

Shown(views) ==
  \A i \in 1..Len(views) : views[i].isApproved /\ UnderApproved(views[i])

\* C14: the comments of a post, the replies of a comment and the comments
\* embedded in the answers of the posts list, of the by-category list and of
\* the fetch by id hold no unapproved comment and no reply of an unapproved
\* comment.
C14_OnlyApprovedThreads ==
  /\ resp.handler = "comments" /\ resp.status = 200 => Shown(resp.comments)
  /\ resp.handler = "replies" /\ resp.status = 200
       => Shown(resp.replies) /\ (resp.replies # <<>> => resp.parentApproved)
  /\ resp.handler \in {"list", "byCategory"} /\ resp.status = 200
       => \A i \in 1..Len(resp.posts) : Shown(resp.posts[i].comments)
  /\ resp.handler = "getPost" /\ resp.status = 200 => Shown(resp.post.comments)

Descending(seq) == \A i, j \in 1..Len(seq) : i < j => seq[i] > seq[j]
Ascending(seq) == \A i, j \in 1..Len(seq) : i < j => seq[i] < seq[j]
Ids(views) == [i \in 1..Len(views) |-> views[i].id]

----------------------------------------------------------------------------
(* Properties of the slug *)

\* The maximal runs of a-z0-9 characters of t, in order.
RECURSIVE Words(_, _)
Words(t, word) ==
  IF t = <<>> THEN (IF word = <<>> THEN <<>> ELSE <<word>>)
  ELSE IF Head(t) \in Alnum THEN Words(Tail(t), Append(word, Head(t)))
  ELSE (IF word = <<>> THEN <<>> ELSE <<word>>) \o Words(Tail(t), <<>>)

\* C16: the slug of a saved category whose name was modified has only a-z, 0-9
\* and hyphens, no two adjacent hyphens, no hyphen first or last, and its
\* hyphen-separated parts are the maximal a-z0-9 runs of the lowercased name,
\* in order; "Tech Notes!!" gives "tech-notes".
C16_SlugOfName ==
  resp.handler = "saveCategory" /\ resp.modified =>
    LET slug == resp.slug
    IN /\ \A i \in 1..Len(slug) : slug[i] \in Alnum \cup {"-"}
       /\ \A i \in 1..(Len(slug) - 1) : ~(slug[i] = "-" /\ slug[i + 1] = "-")
       /\ slug # <<>> => slug[1] # "-" /\ slug[Len(slug)] # "-"
       /\ Words(slug, <<>>) = Words(LowerAll(resp.name), <<>>)
       /\ resp.name = TechNotes
            => slug = <<"t", "e", "c", "h", "-", "n", "o", "t", "e", "s">>

\* The category "Tech Notes!!" has been saved with its slug.
C16_Witness ==
  /\ resp.handler = "saveCategory" /\ resp.modified
  /\ resp.name = TechNotes
  /\ resp.slug = <<"t", "e", "c", "h", "-", "n", "o", "t", "e", "s">>

----------------------------------------------------------------------------
(* Properties of the users *)

\* Request r ends in this step.
Ends(r) == ~IsIdle(r) /\ req'[r] = Idle

\* C17: isActive of a user changes only in the saving step of a PATCH
\* /:id/status on that user made by an admin, and isApproved of a comment only
\* in the saving step of a PATCH /:id/approve on that comment made by an admin.
C17_FlagsChangeByAdminOnly ==
  [][/\ \A u \in Users :
          users'[u].isActive # users[u].isActive =>
            \E r \in Slots : /\ req[r].pc = "patchStatus:save" /\ Ends(r)
                             /\ req[r].body.target = u
                             /\ RoleOf(req[r].user) = "admin"
     /\ \A c \in DOMAIN comments \cap DOMAIN comments' :
          comments'[c].isApproved # comments[c].isApproved =>
            \E r \in Slots : /\ req[r].pc = "approve:save" /\ Ends(r)
                             /\ req[r].id = c
                             /\ RoleOf(req[r].user) = "admin"]_vars

\* A user has been deactivated and a comment disapproved, and a non-admin has
\* just been refused an approval.
C17_Witness ==
  /\ resp.handler = "approve" /\ resp.status = 403 /\ resp.user = "u2"
  /\ ~users["u1"].isActive
  /\ \E c \in DOMAIN comments : ~comments[c].isApproved

UserHandlers == {"getMe", "users", "getUser", "putMe", "patchStatus"}

\* C18: no response of the users router carries a password: neither the
\* response nor any user in it has a password field.
C18_NoPasswordInResponses ==
  resp.handler \in UserHandlers =>
    /\ "password" \notin DOMAIN resp
    /\ "users" \in DOMAIN resp =>
         \A i \in 1..Len(resp.users) : "password" \notin DOMAIN resp.users[i]

\* The admin has listed all three users, each stored with a password.
C18_Witness ==
  /\ resp.handler = "users" /\ resp.status = 200 /\ Len(resp.users) = 3
  /\ \A u \in Users : users[u].password # ""

----------------------------------------------------------------------------
(* Interleaved fetches and like toggles *)

Occurrences(likes, v) == Cardinality({i \in 1..Len(likes) : likes[i] = v})

\* Request r completes a like toggle that rewrites the likes list (an unlike).
Rewrites(r) ==
  /\ req[r].pc = "like:save" /\ req'[r] = Idle
  /\ UserLiked(req[r].doc.likes, req[r].user)

\* Request r completes a like toggle of user v.
TogglesFor(r, v) == req[r].pc = "like:save" /\ req'[r] = Idle /\ req[r].user = v

\* C19 as stated, for the likes: a like toggle that rewrites the likes list
\* stores the list it computed from its read, also when the comment was saved
\* by another request since that read (so that it would discard another
\* user's concurrent toggle).
C19_StaleRewriteIsStored ==
  [][\A r \in Slots :
       Rewrites(r) /\ req[r].id \in DOMAIN comments
         => comments'[req[r].id].likes = ToggledLikes(req[r].doc.likes, req[r].user)]_vars

\* C19, amended: under interleaved fetches of a post by id its viewCount is at
\* most the number of completed fetches (and can be less: a lost update); a
\* like toggle that rewrites the likes list from a stale read is answered 500
\* and stores nothing, and in every step the entries of a user in a comment's
\* likes change only by that user's own toggle.
C19_ViewsAreLostLikesAreNot ==
  [][/\ \A p \in DOMAIN posts' : posts'[p].viewCount <= fetched'[p]
     /\ \A r \in Slots :
          Rewrites(r) /\ req[r].id \in DOMAIN comments
                      /\ comments[req[r].id].__v # req[r].doc.__v
            => comments' = comments /\ resp'.status = 500
     /\ \A id \in DOMAIN comments \cap DOMAIN comments', v \in Users :
          Occurrences(comments'[id].likes, v) # Occurrences(comments[id].likes, v)
            => \E r \in Slots : TogglesFor(r, v) /\ req[r].id = id]_vars

\* Two fetches of a post have completed and its viewCount is 1; and an unlike
\* from a stale read has just been answered 500 while the comment holds the
\* like another user added since that read.
C19_Witness ==
  /\ \E p \in DOMAIN posts : fetched[p] = 2 /\ posts[p].viewCount = 1
  /\ resp.handler = "like" /\ resp.status = 500 /\ resp.id \in DOMAIN comments
  /\ UserLiked(comments[resp.id].likes, resp.user)
  /\ \E v \in Users \ {resp.user} : UserLiked(comments[resp.id].likes, v)

\* C20: in every step the viewCount of every stored post is at least what it
\* was before the step, with fetches by id and updates of posts interleaved.
C20_ViewCountNeverDecreases ==
  [][\A p \in DOMAIN posts \cap DOMAIN posts' :
       posts'[p].viewCount >= posts[p].viewCount]_vars

----------------------------------------------------------------------------
(* Properties of the stored categories *)

\* C21: after every category save every stored category's slug is the slug
\* function of its name; a save that changes the name recomputes the slug and
\* a save that does not change the name leaves the slug as it was.
C21_SlugFollowsName ==
  [][/\ \A c \in DOMAIN categories' : categories'[c].slug = Slug(categories'[c].name)
     /\ \A c \in DOMAIN categories \cap DOMAIN categories' :
          IF categories'[c].name = categories[c].name
          THEN categories'[c].slug = categories[c].slug
          ELSE categories'[c].slug = Slug(categories'[c].name)]_vars

----------------------------------------------------------------------------
(* Properties of the creation of comments *)

CreatePcs == {"createComment:parent", "createComment:create", "createComment:push"}

\* The replies lists of the comments stored before and after the step.
RepliesLists(coll) == [c \in DOMAIN comments \cap DOMAIN comments' |-> coll[c].replies]

----------------------------------------------------------------------------
(* Properties of a like toggle *)

\* C23: a like toggle by user U answered 200 has removed U from the stored
\* likes when U was in them and has appended U otherwise; the returned isLiked
\* is whether U is in the stored likes after the request, and the returned
\* likes is the size of the stored likes after the request.
C23_ToggleAnswersTheStoredLikes ==
  [][resp'.handler = "like" /\ resp'.status = 200 =>
       LET id == resp'.id
           u == resp'.user
       IN /\ IF UserLiked(comments[id].likes, u)
             THEN comments'[id].likes = Without(comments[id].likes, u)
             ELSE comments'[id].likes = Append(comments[id].likes, u)
          /\ resp'.isLiked = UserLiked(comments'[id].likes, u)
          /\ resp'.likes = Len(comments'[id].likes)]_vars

----------------------------------------------------------------------------
(* Properties of the category filter *)

\* The categories a filter value names: the one with that id, or the ones with
\* that name in any letter case.
NamedBy(q) ==
  {c \in CategoryIds :
     \/ q.kind = "id" /\ c = q.id
     \/ q.kind = "name" /\ LowerAll(CategoryName[c]) = LowerAll(q.name)}

\* C24: every post in the answer of a list requested with a category filter
\* belongs to a category the filter names, by id or by name; a filter that
\* names no category yields no post.
C24_FilterYieldsItsCategoryOnly ==
  resp.handler = "list" /\ resp.status = 200 /\ resp.category # NoCategory
    => \A i \in 1..Len(resp.posts) : resp.posts[i].category \in NamedBy(resp.category)

----------------------------------------------------------------------------
(* Properties of a profile update *)

ProfileFields == {"name", "bio", "avatar"}

\* C25: the saving step of a PUT /api/users/me changes at most the name, bio
\* and avatar of the acting user, whatever the body holds: that user's role,
\* isActive, email and password and every other user stay as stored; and no
\* other step of the request changes a user.
C25_ProfileUpdateFrame ==
  [][/\ \A r \in Slots :
          /\ req[r].pc = "putMe:save" /\ req'[r] = Idle
               => \A v \in Users :
                    \A f \in DOMAIN users[v] :
                       users'[v][f] # users[v][f] => v = req[r].user /\ f \in ProfileFields
          /\ IsIdle(r) /\ req'[r].pc = "putMe:save" => UNCHANGED users
     /\ resp'.handler = "putMe" /\ resp'.status # 200 => UNCHANGED users]_vars

\* u1 has sent a body that names a role, isActive, an email and a password
\* with the profile fields, and the update has been answered 200: name, bio
\* and avatar are the body's.
C25_Witness ==
  /\ resp.handler = "putMe" /\ resp.status = 200 /\ resp.user = "u1"
  /\ users["u1"].name = "Jo" /\ users["u1"].bio = "hi" /\ users["u1"].avatar = "jo.png"

----------------------------------------------------------------------------
(* Properties of the post of a reply *)

\* C26: every stored comment whose parentComment is a stored comment has the
\* post of that parent.
C26_ReplyOnItsParentsPost ==
  \A c \in DOMAIN comments :
     comments[c].parentComment \in DOMAIN comments
       => comments[c].post = comments[comments[c].parentComment].post

====
